---- MODULE Spec2Model ----
(***************************************************************************)
(* Control loop of the WiFi tally light (tally/ESP32-ArduinoIDE-WebUI.ino): *)
(* UDP command reception, solid-colour rendering, the connectivity watchdog *)
(* on the 32-bit microsecond clock, and the "tally-ho" heartbeat.           *)
(*                                                                          *)
(* TLC integers are 32-bit signed, so an unsigned long of the ESP32 (32     *)
(* bits) is kept as two 16-bit limbs <<hi, lo>>, and the time since boot    *)
(* (the 64-bit esp_timer count micros() and millis() are derived from) as   *)
(* three limbs <<cycle, hi, lo>>, cycle counting the wraps of micros().     *)
(* The provisioning portal, the HTTP configuration page and the reset       *)
(* button restart the device and are outside the control loop modelled.     *)
(***************************************************************************)
EXTENDS Integers, Sequences, FiniteSets, TLC

\* ------------------------------------------------------------------ bounds
\* loop iterations explored
MaxIter == 2
\* datagrams waiting in the UDP socket
MaxQueue == 1
\* largest configured strip length explored
MaxLeds == 2
\* loop iterations explored when no command holds the loop
MaxIdleIter == 3

\* ------------------------------------------------- 32-bit unsigned values
Limb == 65536

\* the literal 4294967295 of diffMicroSeconds
ULONG_MAX == <<Limb - 1, Limb - 1>>

\* n in 0 .. 2^31-1 as an unsigned long
ToU32(n) == <<n \div Limb, n % Limb>>

U32Lt(a, b) == a[1] < b[1] \/ (a[1] = b[1] /\ a[2] < b[2])

\* a + b, truncated to 32 bits
U32Add(a, b) ==
  LET s == a[2] + b[2]
  IN  <<(a[1] + b[1] + (s \div Limb)) % Limb, s % Limb>>

\* a - b, truncated to 32 bits
U32Sub(a, b) ==
  LET d == a[2] - b[2]
      borrow == IF d < 0 THEN 1 ELSE 0
  IN  <<(a[1] - b[1] - borrow) % Limb, d % Limb>>

\* ------------------------------------------------------ time since boot
\* t + dt microseconds, dt in 0 .. 2^31-1
TimeAdd(t, dt) ==
  LET lo == t[3] + (dt % Limb)
      hi == t[2] + (dt \div Limb) + (lo \div Limb)
  IN  <<t[1] + (hi \div Limb), hi % Limb, lo % Limb>>

TimeLt(a, b) ==
  \/ a[1] < b[1]
  \/ a[1] = b[1] /\ U32Lt(<<a[2], a[3]>>, <<b[2], b[3]>>)

\* micros(): the low 32 bits of the microseconds since boot
micros(t) == <<t[2], t[3]>>

\* millis(): the microseconds since boot divided by 1000 (long division on
\* the limbs; the quotient stays below 2^31 for the cycles explored)
millis(t) ==
  LET n1 == t[1] * Limb + t[2]
      n2 == (n1 % 1000) * Limb + t[3]
  IN  (n1 \div 1000) * Limb + (n2 \div 1000)

\* ------------------------------------------------------------- datagrams
\* 'O255/128/0 S0/0/255 0x01 3', strlen 26
CmdTimed ==
  <<"O","2","5","5","/","1","2","8","/","0"," ","S","0","/","0","/","2","5","5"," ","0","x","0","1"," ","3">>
\* 'O0/255/0 S0/0/255 0x01f 5', strlen 25
CmdImmediate ==
  <<"O","0","/","2","5","5","/","0"," ","S","0","/","0","/","2","5","5"," ","0","x","0","1","f"," ","5">>
\* 'O255/0', strlen 6: two fields only
CmdShortBad ==
  <<"O","2","5","5","/","0">>
\* 'O0/0/255 S0/0/0 0xZZ and more', strlen 29: six fields, then no hex digits
CmdLongBad ==
  <<"O","0","/","0","/","2","5","5"," ","S","0","/","0","/","0"," ","0","x","Z","Z"," ","a","n","d"," ","m","o","r","e">>

\* 'O255/128/0 S255/0/0 0x02 3', strlen 26: other standby colour and pattern id
CmdTimedStandby ==
  <<"O","2","5","5","/","1","2","8","/","0"," ","S","2","5","5","/","0","/","0"," ","0","x","0","2"," ","3">>
\* 'O0/255/0 S9/9/255 0x02a 5', strlen 25: other standby colour and pattern id
CmdImmediateStandby ==
  <<"O","0","/","2","5","5","/","0"," ","S","9","/","9","/","2","5","5"," ","0","x","0","2","a"," ","5">>
\* 'O0/255/0 S0/0/255 0x011f 5', strlen 26: CmdImmediate with a longer pattern id
CmdImmediateLong ==
  <<"O","0","/","2","5","5","/","0"," ","S","0","/","0","/","2","5","5"," ","0","x","0","1","1","f"," ","5">>
\* CmdTimed followed by 230 blanks: a datagram of 256 bytes
CmdOversized == CmdTimed \o [i \in 1..230 |-> " "]

\* the datagrams the hub or anybody else on the network may send; <<>> is a
\* datagram without payload
Datagrams == {CmdTimed, CmdImmediate, CmdShortBad, CmdLongBad, <<>>}

\* datagrams at the limits of the receive buffer
RecvDatagrams == {CmdOversized, CmdImmediate, <<>>}

\* well-formed commands that differ in standby colour and pattern id only
PairDatagrams ==
  {CmdTimed, CmdTimedStandby, CmdImmediate, CmdImmediateStandby, CmdImmediateLong}

\* values an uninitialised int local of handleReceivedMessage may hold
Garbage == {0, 77}

\* ------------------------------------------------------------------ sscanf
HexChars == <<"0","1","2","3","4","5","6","7","8","9","a","b","c","d","e","f">>
HexUpper == <<"0","1","2","3","4","5","6","7","8","9","A","B","C","D","E","F">>

IsDigit(c, base) ==
  \E i \in 1..base : HexChars[i] = c \/ HexUpper[i] = c

DigitVal(c) ==
  (CHOOSE i \in 1..16 : HexChars[i] = c \/ HexUpper[i] = c) - 1

IsSpace(c) == c \in {" ", "\t", "\n", "\r"}

RECURSIVE SkipSpace(_, _)
SkipSpace(data, pos) ==
  IF pos <= Len(data) /\ IsSpace(data[pos])
  THEN SkipSpace(data, pos + 1)
  ELSE pos

\* the digits of one conversion from pos on: [pos, val, cnt]
RECURSIVE ReadDigits(_, _, _, _, _)
ReadDigits(data, pos, base, val, cnt) ==
  IF pos <= Len(data) /\ IsDigit(data[pos], base)
  THEN ReadDigits(data, pos + 1, base, val * base + DigitVal(data[pos]), cnt + 1)
  ELSE [pos |-> pos, val |-> val, cnt |-> cnt]

\* one %d (base 10) or %x (base 16) conversion: leading white space, an
\* optional sign, for %x an optional 0x before a hex digit, then digits
Convert(data, pos, base) ==
  LET p1 == SkipSpace(data, pos)
      signed == p1 <= Len(data) /\ data[p1] \in {"+", "-"}
      p2 == IF signed THEN p1 + 1 ELSE p1
      prefixed == /\ base = 16
                  /\ p2 + 2 <= Len(data)
                  /\ data[p2] = "0"
                  /\ data[p2 + 1] \in {"x", "X"}
                  /\ IsDigit(data[p2 + 2], 16)
      p3 == IF prefixed THEN p2 + 2 ELSE p2
      r == ReadDigits(data, p3, base, 0, 0)
  IN  [ok  |-> r.cnt > 0,
       pos |-> r.pos,
       val |-> IF signed /\ data[p1] = "-" THEN 0 - r.val ELSE r.val]

\* the format string "O%d/%d/%d S%d/%d/%d 0x%x %d", one directive each
Format ==
  <<"O", "%d", "/", "%d", "/", "%d", " ",
    "S", "%d", "/", "%d", "/", "%d", " ",
    "0", "x", "%x", " ", "%d">>

\* the values sscanf assigns, in order; it stops at the first directive
\* that does not match and leaves the remaining arguments untouched
RECURSIVE sscanfFrom(_, _, _, _)
sscanfFrom(data, f, pos, vals) ==
  IF f > Len(Format) THEN vals
  ELSE IF Format[f] = " "
    THEN sscanfFrom(data, f + 1, SkipSpace(data, pos), vals)
  ELSE IF Format[f] \in {"%d", "%x"}
    THEN LET c == Convert(data, pos, IF Format[f] = "%x" THEN 16 ELSE 10)
         IN  IF c.ok
             THEN sscanfFrom(data, f + 1, c.pos, Append(vals, c.val))
             ELSE vals
  ELSE IF pos <= Len(data) /\ data[pos] = Format[f]
    THEN sscanfFrom(data, f + 1, pos + 1, vals)
  ELSE vals

sscanf(data) == sscanfFrom(data, 1, 1, <<>>)

strlen(data) == Len(data)

\* udp.read(incomingPacket, 255): at most 255 bytes of the datagram
read(packet) == SubSeq(packet, 1, IF Len(packet) < 255 THEN Len(packet) ELSE 255)

\* char incomingPacket[255]
BufferSize == 255

\* incomingPacket[len] = 0: the index written, len being what read returned
terminatorIndex(packet) == Len(read(packet))

\* what sscanf assigns for each payload the loop can hand over
scanned ==
  [data \in {read(d) : d \in Datagrams \cup RecvDatagrams \cup PairDatagrams}
     |-> sscanf(data)]

\* -------------------------------------------------------------------- state
VARIABLES
  pc,                       \* position of the single thread in loop()
  iter,                     \* completed iterations of loop()
  now,                      \* microseconds since boot, <<cycle, hi, lo>>
  wifi,                     \* WiFi.status() == WL_CONNECTED
  udpQueue,                 \* datagrams received by the socket, not yet parsed
  timeLastPackageReceived,  \* unsigned long, <<hi, lo>>
  lastStatus,               \* String lastStatus
  ledCount,                 \* configured strip length
  strip,                    \* pixel colours shown, index 0 .. ledCount-1
  holdMs,                   \* argument of the delay() in progress
  printed,                  \* line the last step printed through logMessageOnce
  elapsed,                  \* value diffMicroSeconds returned in this iteration
  watchdog,                 \* branch the last watchdog evaluation took
  heartbeats,               \* 'tally-ho' datagrams sent in this iteration
  hbSec,                    \* millis()/1000 at the last heartbeat sent
  hbWatchdog,               \* watchdog branch of the iteration that sent it
  tsTrue,                   \* time since boot when the timestamp was set
  consumed,                 \* datagrams taken from the socket in this iteration
  handled                   \* handleReceivedMessage was called in this iteration

vars ==
  <<pc, iter, now, wifi, udpQueue, timeLastPackageReceived, lastStatus,
    ledCount, strip, holdMs, printed, elapsed, watchdog, heartbeats, hbSec,
    hbWatchdog, tsTrue, consumed, handled>>

\* microseconds the thread may take from the end of one iteration to the
\* UDP poll of the next, and from the poll to the watchdog's reading of
\* the clock; the heartbeat test follows the watchdog at once
PollDts == {1, 500000}
WatchDts == {0, 1}

\* the same from one iteration to the next when an iteration may take 0.6 s
IdleDts == {1, 600000}

\* time since boot at which setup() may return (autoConnect blocks for as
\* long as the provisioning takes): 0, and 2 us before micros() wraps
InitTimes == {<<0, 0, 0>>, <<0, Limb - 1, Limb - 2>>}

\* --------------------------------------------------------------- functions
\* strip.Color(r, g, b) takes uint8_t arguments
Color(r, g, b) == <<r % 256, g % 256, b % 256>>

\* updateLEDs with the loop one pixel short (i < ledCount - 1)
updateLEDsShort(r, g, b) ==
  [i \in 0..(ledCount - 1) |-> IF i < ledCount - 1 THEN Color(r, g, b) ELSE strip[i]]

\* void updateLEDs(int r, int g, int b): the strip after the call
updateLEDs(r, g, b) == [i \in 0..(ledCount - 1) |-> Color(r, g, b)]

\* void logMessageOnce(const char *message)
logMessageOnce(message) ==
  /\ printed' = IF lastStatus # message THEN message ELSE ""
  /\ lastStatus' = message

\* unsigned long diffMicroSeconds(unsigned long time), micros() read at t
diffMicroSeconds(time, t) ==
  LET clock == micros(t)
  IN  IF U32Lt(clock, time)
      THEN U32Add(clock, U32Sub(ULONG_MAX, time))
      ELSE U32Sub(clock, time)

\* strlen(data) > 25: the command is a timed one
isTimed(data) == strlen(data) > 25

\* delay(duration): the duration taken as milliseconds
holdArgumentMs(duration) == duration

\* the argument of delay(duration * 1000), in milliseconds
holdArgument(duration) == duration * 1000

\* a handler that renders the standby colour
handleReceivedMessageStandby(data, t) ==
  /\ timeLastPackageReceived' = micros(t)
  /\ tsTrue' = t
  /\ LET vals == scanned[data]
         local(i) == IF i <= Len(vals) THEN {vals[i]} ELSE Garbage
     IN  \E stR \in local(4), stG \in local(5), stB \in local(6),
            duration \in local(8) :
           /\ strip' = updateLEDs(stR, stG, stB)
           /\ IF isTimed(data)
              THEN /\ holdMs' = holdArgument(duration)
                   /\ pc' = "hold"
              ELSE /\ holdMs' = 0
                   /\ pc' = "watchdog"

\* void handleReceivedMessage(const char *data), entered at time t, up to
\* the delay(); the int locals sscanf does not assign keep what the stack
\* held (only opR, opG, opB and duration are read afterwards)
handleReceivedMessage(data, t) ==
  /\ timeLastPackageReceived' = micros(t)
  /\ tsTrue' = t
  /\ LET vals == scanned[data]
         local(i) == IF i <= Len(vals) THEN {vals[i]} ELSE Garbage
     IN  \E opR \in local(1), opG \in local(2), opB \in local(3),
            duration \in local(8) :
           /\ strip' = updateLEDs(opR, opG, opB)
           /\ IF isTimed(data)
              THEN /\ holdMs' = holdArgument(duration)
                   /\ pc' = "hold"
              ELSE /\ holdMs' = 0
                   /\ pc' = "watchdog"

\* void sendTallyStatus(const char *status, const char *deviceName), at t
sendTallyStatus(t) ==
  IF wifi
  THEN /\ heartbeats' = heartbeats + 1
       /\ hbSec' = millis(t) \div 1000
       /\ hbWatchdog' = watchdog
       /\ logMessageOnce("Sent status to hub")
  ELSE /\ logMessageOnce("Failed to send status, not connected to WiFi")
       /\ UNCHANGED <<heartbeats, hbSec, hbWatchdog>>

\* ------------------------------------------------------------------- steps
Init ==
  /\ pc = "checkWiFi"
  /\ iter = 0
  /\ now \in InitTimes
  /\ wifi = TRUE
  /\ udpQueue = <<>>
  /\ timeLastPackageReceived = <<0, 0>>
  /\ lastStatus = ""
  /\ ledCount = MaxLeds
  /\ strip = [i \in 0..(ledCount - 1) |-> <<0, 0, 0>>]
  /\ holdMs = 0
  /\ printed = ""
  /\ elapsed = <<0, 0>>
  /\ watchdog = "NONE"
  /\ heartbeats = 0
  /\ hbSec = -1
  /\ hbWatchdog = "NONE"
  /\ tsTrue = <<0, 0, 0>>
  /\ consumed = 0
  /\ handled = FALSE

\* void checkWiFiConnection(), the first statement of loop(), while fewer
\* than limit iterations were made
checkWiFiConnectionBelow(limit) ==
  /\ pc = "checkWiFi"
  /\ iter < limit
  /\ IF ~wifi
     THEN /\ logMessageOnce("RECONNECTING TO WIFI")
          /\ now' = TimeAdd(now, 1000 * 1000)
     ELSE /\ printed' = ""
          /\ UNCHANGED <<lastStatus, now>>
  /\ pc' = "poll"
  /\ heartbeats' = 0
  /\ elapsed' = <<0, 0>>
  /\ UNCHANGED <<iter, wifi, udpQueue, timeLastPackageReceived, ledCount, strip,
                 holdMs, watchdog, hbSec, hbWatchdog, tsTrue,
                 consumed, handled>>

checkWiFiConnection == checkWiFiConnectionBelow(MaxIter)

checkWiFiConnectionIdle == checkWiFiConnectionBelow(MaxIdleIter)

\* loop(), the link test and the UDP poll, reached after one of dts
LoopPollAfter(dts) ==
  /\ pc = "poll"
  /\ printed' = ""
  /\ \E dt \in dts :
       LET t == TimeAdd(now, dt)
       IN  /\ now' = t
           /\ IF ~wifi
              THEN \* the whole block is skipped: the iteration ends
                   /\ pc' = "checkWiFi"
                   /\ iter' = iter + 1
                   /\ UNCHANGED <<udpQueue, timeLastPackageReceived, strip,
                                  holdMs, tsTrue, consumed, handled>>
              ELSE /\ UNCHANGED iter
                   /\ IF udpQueue = <<>>
                      THEN /\ pc' = "watchdog"
                           /\ UNCHANGED <<udpQueue, timeLastPackageReceived,
                                          strip, holdMs, tsTrue, consumed,
                                          handled>>
                      ELSE LET packet == Head(udpQueue)
                               packetSize == Len(packet)
                               incomingPacket == read(packet)
                               len == Len(incomingPacket)
                           IN  /\ udpQueue' = Tail(udpQueue)
                               /\ consumed' = consumed + 1
                               /\ IF packetSize # 0 /\ len > 0
                                  THEN /\ handleReceivedMessage(incomingPacket, t)
                                       /\ handled' = TRUE
                                  ELSE /\ pc' = "watchdog"
                                       /\ UNCHANGED <<timeLastPackageReceived,
                                                      strip, holdMs, tsTrue,
                                                      handled>>
  /\ UNCHANGED <<wifi, lastStatus, ledCount, elapsed, watchdog, heartbeats,
                 hbSec, hbWatchdog>>

LoopPoll == LoopPollAfter(PollDts)

LoopPollIdle == LoopPollAfter(IdleDts)

\* a hold that keeps draining the socket while it waits
LoopHoldPolling ==
  /\ pc = "hold"
  /\ now' = TimeAdd(now, holdMs * 1000)
  /\ holdMs' = 0
  /\ pc' = "watchdog"
  /\ udpQueue' = IF udpQueue = <<>> THEN udpQueue ELSE Tail(udpQueue)
  /\ UNCHANGED <<iter, wifi, timeLastPackageReceived, lastStatus, ledCount, strip,
                 printed, elapsed, watchdog, heartbeats, hbSec, hbWatchdog, tsTrue,
                 consumed, handled>>

\* the end of delay(duration * 1000) in handleReceivedMessage
LoopHold ==
  /\ pc = "hold"
  /\ now' = TimeAdd(now, holdMs * 1000)
  /\ holdMs' = 0
  /\ pc' = "watchdog"
  /\ UNCHANGED <<iter, wifi, udpQueue, timeLastPackageReceived, lastStatus,
                 ledCount, strip, printed, elapsed, watchdog, heartbeats, hbSec, hbWatchdog,
                 tsTrue, consumed, handled>>

\* loop(), the watchdog evaluation
LoopWatchdog ==
  /\ pc = "watchdog"
  /\ \E dt \in WatchDts :
       LET t == TimeAdd(now, dt)
           diff == diffMicroSeconds(timeLastPackageReceived, t)
       IN  /\ now' = t
           /\ elapsed' = diff
           /\ IF U32Lt(ToU32(3000000), diff)
              THEN /\ strip' = updateLEDs(255, 0, 0)
                   /\ logMessageOnce("DISCONNECTED")
                   /\ watchdog' = "DISCONNECTED"
              ELSE /\ logMessageOnce("CONNECTED")
                   /\ watchdog' = "CONNECTED"
                   /\ UNCHANGED strip
  /\ pc' = "heartbeat"
  /\ UNCHANGED <<iter, wifi, udpQueue, timeLastPackageReceived, ledCount, holdMs,
                 heartbeats, hbSec, hbWatchdog, tsTrue,
                 consumed, handled>>

\* a heartbeat the watchdog suppresses while DISCONNECTED
LoopHeartbeatSuppressed ==
  /\ pc = "heartbeat"
  /\ IF watchdog = "CONNECTED" /\ millis(now) % 1000 < 100
     THEN sendTallyStatus(now)
     ELSE /\ printed' = ""
          /\ UNCHANGED <<lastStatus, heartbeats, hbSec, hbWatchdog>>
  /\ pc' = "checkWiFi"
  /\ iter' = iter + 1
  /\ consumed' = 0
  /\ handled' = FALSE
  /\ UNCHANGED <<now, wifi, udpQueue, timeLastPackageReceived, ledCount, strip,
                 holdMs, elapsed, watchdog, tsTrue>>

\* loop(), the heartbeat schedule
LoopHeartbeat ==
  /\ pc = "heartbeat"
  /\ IF millis(now) % 1000 < 100
     THEN sendTallyStatus(now)
     ELSE /\ printed' = ""
          /\ UNCHANGED <<lastStatus, heartbeats, hbSec, hbWatchdog>>
  /\ pc' = "checkWiFi"
  /\ iter' = iter + 1
  /\ consumed' = 0
  /\ handled' = FALSE
  /\ UNCHANGED <<now, wifi, udpQueue, timeLastPackageReceived, ledCount, strip,
                 holdMs, elapsed, watchdog, tsTrue>>

\* ------------------------------------------------------------- environment
\* a datagram of the set sent reaches the socket bound by udp.begin(7411)
Receive(sent) ==
  /\ wifi
  /\ Len(udpQueue) < MaxQueue
  /\ \E d \in sent : udpQueue' = Append(udpQueue, d)
  /\ UNCHANGED <<pc, iter, now, wifi, timeLastPackageReceived, lastStatus,
                 ledCount, strip, holdMs, printed, elapsed, watchdog,
                 heartbeats, hbSec, hbWatchdog, tsTrue,
                 consumed, handled>>

\* the link drops or comes back
LinkChange ==
  /\ wifi' = ~wifi
  /\ UNCHANGED <<pc, iter, now, udpQueue, timeLastPackageReceived, lastStatus,
                 ledCount, strip, holdMs, printed, elapsed, watchdog,
                 heartbeats, hbSec, hbWatchdog, tsTrue,
                 consumed, handled>>

Arrive == Receive(Datagrams)

ArriveRecv == Receive(RecvDatagrams)

ArrivePair == Receive(PairDatagrams)

ArriveIdle == Receive({CmdImmediate})

Next ==
  \/ checkWiFiConnection
  \/ LoopPoll
  \/ LoopHold
  \/ LoopWatchdog
  \/ LoopHeartbeat
  \/ Arrive
  \/ LinkChange

Spec == Init /\ [][Next]_vars

\* the loop fed with datagrams at the limits of the receive buffer
NextRecv ==
  \/ checkWiFiConnection
  \/ LoopPoll
  \/ LoopHold
  \/ LoopWatchdog
  \/ LoopHeartbeat
  \/ ArriveRecv
  \/ LinkChange

SpecRecv == Init /\ [][NextRecv]_vars

\* the loop fed with well-formed commands that differ in the unused fields
NextPair ==
  \/ checkWiFiConnection
  \/ LoopPoll
  \/ LoopHold
  \/ LoopWatchdog
  \/ LoopHeartbeat
  \/ ArrivePair
  \/ LinkChange

SpecPair == Init /\ [][NextPair]_vars

\* the loop with the link as it was at boot and immediate commands only:
\* no command holds the loop (pc is never "hold"), so that nothing but the
\* iterations themselves takes time
NextIdle ==
  \/ checkWiFiConnectionIdle
  \/ LoopPollIdle
  \/ LoopWatchdog
  \/ LoopHeartbeat
  \/ ArriveIdle

SpecIdle == Init /\ [][NextIdle]_vars

\* ---------------------------------------------------------------- properties
Red == <<255, 0, 0>>

AllPixels(c) == strip = [i \in 0..(ledCount - 1) |-> c]

\* the time since the timestamp was set is n, or more than n, microseconds
SinceLastPacketIs(n) == now = TimeAdd(tsTrue, n)
SinceLastPacketOver(n) == TimeLt(TimeAdd(tsTrue, n), now)

\* micros() has wrapped at most once since the timestamp was set
WrappedAtMostOnce == TimeLt(now, <<tsTrue[1] + 1, tsTrue[2], tsTrue[3]>>)

\* the eight literal values embedded in each well-formed payload
Literal ==
  (CmdTimed :> <<255, 128, 0, 0, 0, 255, 1, 3>>) @@
  (CmdImmediate :> <<0, 255, 0, 0, 0, 255, 31, 5>>) @@
  (CmdTimedStandby :> <<255, 128, 0, 255, 0, 0, 2, 3>>) @@
  (CmdImmediateStandby :> <<0, 255, 0, 9, 9, 255, 42, 5>>) @@
  (CmdImmediateLong :> <<0, 255, 0, 0, 0, 255, 287, 5>>)

WellFormed == DOMAIN Literal

\* the step of loop() that reads datagram p and hands it over
Handles(p) ==
  /\ pc = "poll"
  /\ pc' # "poll"
  /\ wifi
  /\ udpQueue # <<>>
  /\ Head(udpQueue) = p

\* the step of loop() that evaluates the watchdog
Evaluates == pc = "watchdog" /\ pc' = "heartbeat"

\* the step of loop() that tests the heartbeat schedule
Schedules == pc = "heartbeat" /\ pc' = "checkWiFi"

C2_OncePerSecond ==
  [][(heartbeats' > heartbeats /\ watchdog = "CONNECTED" /\ hbWatchdog = "CONNECTED")
       => millis(now') \div 1000 # hbSec]_vars

\* C3: CONNECTED or DISCONNECTED is printed only by a watchdog evaluation
\* whose result differs from the result of the evaluation before it.
C3_LogOncePerTransition ==
  [][(Evaluates /\ printed' \in {"CONNECTED", "DISCONNECTED"})
       => watchdog' # watchdog]_vars

\* C4: while the clock has wrapped at most once since the timestamp, the
\* value diffMicroSeconds returns is (clockNow - timestamp) mod 2^32.
C4_ElapsedExact ==
  (pc = "heartbeat" /\ WrappedAtMostOnce)
    => elapsed = U32Sub(micros(now), timeLastPackageReceived)

\* C5: evaluated exactly 3,000,000 us after the timestamp the watchdog says
\* CONNECTED, evaluated 3,000,001 us after it the watchdog says DISCONNECTED.
C5_Boundary ==
  pc = "heartbeat" =>
    /\ SinceLastPacketIs(3000000) => watchdog = "CONNECTED"
    /\ SinceLastPacketIs(3000001) => watchdog = "DISCONNECTED"

\* C6: a payload sscanf does not match in all eight fields changes no pixel
\* and starts no hold.
C6_MalformedRejected ==
  [][\A p \in Datagrams :
       (Handles(p) /\ p # <<>> /\ Len(scanned[read(p)]) < 8)
         => (strip' = strip /\ pc' # "hold")]_vars

\* C7: at the end of every iteration, link up or down, if a packet was
\* received and more than 3,000,000 us have passed since the last one then
\* the watchdog state is DISCONNECTED and every pixel is pure red.
C7_WatchdogEveryIteration ==
  (pc = "checkWiFi" /\ iter > 0 /\ tsTrue # <<0, 0, 0>> /\ SinceLastPacketOver(3000000))
    => (watchdog = "DISCONNECTED" /\ AllPixels(Red))

C9_HoldBlocksLoop ==
  [][pc = "hold" =>
       /\ Len(udpQueue') >= Len(udpQueue)
       /\ SubSeq(udpQueue', 1, Len(udpQueue)) = udpQueue
       /\ UNCHANGED <<timeLastPackageReceived, tsTrue, watchdog, elapsed, strip,
                      heartbeats, hbSec, hbWatchdog, lastStatus>>]_vars

C9_Witness == pc = "hold" /\ holdMs > 3000 /\ udpQueue # <<>>

\* C10: after the render step for a well-formed payload every one of the
\* ledCount pixels equals the operator colour written in the payload, for
\* the timed and for the immediate branch.
C10_RenderOperatorColor ==
  [][\A p \in WellFormed :
       Handles(p) =>
         /\ DOMAIN strip' = 0..(ledCount - 1)
         /\ \A i \in 0..(ledCount - 1) :
              strip'[i] = <<Literal[p][1], Literal[p][2], Literal[p][3]>>]_vars

C10_Witness ==
  /\ pc \in {"hold", "watchdog"}
  /\ timeLastPackageReceived = micros(now)
  /\ AllPixels(<<0, 255, 0>>) \/ AllPixels(<<255, 128, 0>>)

\* C11: a non-empty datagram whose payload sscanf does not match in all
\* eight fields leaves the timestamp of the last packet as it was.
C11_TimestampOnlyOnParsed ==
  [][\A p \in Datagrams :
       (Handles(p) /\ p # <<>> /\ Len(scanned[read(p)]) < 8)
         => timeLastPackageReceived' = timeLastPackageReceived]_vars

\* C12: an empty datagram and a datagram of more than 255 bytes change
\* neither the timestamp nor the strip nor the watchdog state and start no
\* hold, and no iteration takes more than one datagram from the socket.
C12_ReceiveErrorsDropped ==
  [][/\ \A p \in RecvDatagrams :
          (Handles(p) /\ (p = <<>> \/ Len(p) > 255))
            => /\ timeLastPackageReceived' = timeLastPackageReceived
               /\ strip' = strip
               /\ watchdog' = watchdog
               /\ pc' # "hold"
     /\ consumed' <= 1]_vars

\* C13: with the link up, no hold and the watchdog CONNECTED, once a
\* heartbeat was sent every later iteration that completes has a heartbeat
\* in its one-second window of the millisecond clock: after its schedule
\* test the last heartbeat is one of the current second.
C13_HeartbeatEveryWindow ==
  [][(Schedules /\ wifi /\ watchdog = "CONNECTED"
        /\ hbSec >= 0 /\ hbWatchdog = "CONNECTED")
       => hbSec' = millis(now') \div 1000]_vars

\* C14: an iteration whose watchdog evaluation yields CONNECTED after the
\* evaluation before it yielded DISCONNECTED is one that received a
\* datagram.
C14_ReconnectOnlyByPacket ==
  [][(Evaluates /\ watchdog = "DISCONNECTED" /\ watchdog' = "CONNECTED")
       => handled]_vars

\* C15: the watchdog evaluation of an iteration that handed a datagram to
\* handleReceivedMessage and shows the operator colour of a well-formed
\* command yields CONNECTED and leaves the strip as the command rendered
\* it.
C15_AcceptingIterationConnected ==
  [][(/\ Evaluates
      /\ handled
      /\ \E p \in WellFormed :
           AllPixels(<<Literal[p][1], Literal[p][2], Literal[p][3]>>))
       => (watchdog' = "CONNECTED" /\ strip' = strip)]_vars

\* C16: for every non-empty datagram the index at which loop() writes the
\* terminating zero is an index of incomingPacket, one of 0..254.
C16_TerminatorInBounds ==
  [][\A p \in RecvDatagrams :
       (Handles(p) /\ p # <<>>)
         => terminatorIndex(p) \in 0..(BufferSize - 1)]_vars

\* two well-formed payloads with the same operator colour and duration
SameCommand(p, q) ==
  /\ SubSeq(Literal[p], 1, 3) = SubSeq(Literal[q], 1, 3)
  /\ Literal[p][8] = Literal[q][8]

\* C17 (as stated): a step that handles a well-formed payload is also a
\* step the handler takes, from the same state, on any well-formed payload
\* with the same operator colour and duration: same strip, same hold.
C17_StandbyPatternIgnored ==
  [][\A p, q \in PairDatagrams :
       (Handles(p) /\ SameCommand(p, q))
         => handleReceivedMessage(read(q), now')]_vars

\* C17 (amended): the same for two such payloads that are both longer than
\* 25 bytes or both at most 25 bytes long; the length of the text of the
\* standby and pattern fields decides whether the command is held.
C17_StandbyPatternIgnoredSameLength ==
  [][\A p, q \in PairDatagrams :
       (Handles(p) /\ SameCommand(p, q) /\ (Len(p) > 25) = (Len(q) > 25))
         => handleReceivedMessage(read(q), now')]_vars

C17_Witness ==
  /\ pc = "hold"
  /\ holdMs = 3000
  /\ AllPixels(<<255, 128, 0>>)
  /\ udpQueue = <<CmdTimedStandby>>

====
